---- MODULE Spec2Model ----
(***************************************************************************)
(* A model of the vtmachine terminal state machine (src/src/machine.rs):   *)
(* the VtMachine fields, the bounded VtParams / VtIntermediates buffers,   *)
(* the transition driver write_u8char and the events each call returns.    *)
(***************************************************************************)
EXTENDS Integers, Sequences, FiniteSets, TLC

VARIABLES
    state,             \* VtMachine.state
    intermediates,     \* VtMachine.intermediates : [buf, len]
    params,            \* VtMachine.params        : [buf, len]
    in_literal_chunk,  \* VtMachine.in_literal_chunk
    events,            \* the events returned by the last call, in order
    prior,             \* type of the last event emitted in this stream before the last call
    call,              \* the last call: [op, c]
    did,               \* the arm of write_u8char's matches the last call took
    pre,               \* the machine as it was when the last call began
    panicked,          \* the last call panicked (arithmetic overflow, checked build)
    fresh,             \* a machine built by new() at the last write_end, fed the same input since
    fresh_events,      \* the events the fresh machine returned for the last call
    input,             \* scripted input still to be written (scenario specifications);
                       \* in SpecInterm, the bytes pushed since the last clear
    fields,            \* the decimal fields of the scripted control sequence
    open               \* the strings started and not yet ended before the last call

vars == <<state, intermediates, params, in_literal_chunk, events, prior, call, did, pre,
          panicked, fresh, fresh_events, input, fields, open>>

(***************************************************************************)
(* Program constants.                                                      *)
(***************************************************************************)
ParamsCap == 16
IntermediatesCap == 2
OVERRUN_LEN == 3
U16 == 65536
TransitionCap == 5

States ==
    {"Literal", "Escape", "EscapeIntermediate", "CtrlStart", "CtrlParam",
     "CtrlIntermediate", "CtrlMalformed", "DevCtrlStart", "DevCtrlParam",
     "DevCtrlIntermediate", "DevCtrlPassthru", "DevCtrlMalformed", "OsCmd",
     "IgnoreUntilSt"}

Actions ==
    {"Print", "Execute", "Hook", "Put", "OscStart", "OscPut", "CsiDispatch",
     "EscDispatch", "None", "Collect", "Param", "Clear", "Error"}

(***************************************************************************)
(* u8char: a scalar held as its UTF-8 encoding.                            *)
(***************************************************************************)
from_char(c) ==
    IF c < 128 THEN <<c>>
    ELSE IF c < 2048 THEN <<192 + (c \div 64), 128 + (c % 64)>>
    ELSE IF c < 65536 THEN <<224 + (c \div 4096), 128 + ((c \div 64) % 64), 128 + (c % 64)>>
    ELSE <<240 + (c \div 262144), 128 + ((c \div 4096) % 64),
           128 + ((c \div 64) % 64), 128 + (c % 64)>>

first_byte(u) == u[1]

to_char(u) ==
    IF Len(u) = 1 THEN u[1]
    ELSE IF Len(u) = 2 THEN (u[1] - 192) * 64 + (u[2] - 128)
    ELSE IF Len(u) = 3 THEN (u[1] - 224) * 4096 + (u[2] - 128) * 64 + (u[3] - 128)
    ELSE (u[1] - 240) * 262144 + (u[2] - 128) * 4096 + (u[3] - 128) * 64 + (u[4] - 128)

(***************************************************************************)
(* VtParams.                                                               *)
(***************************************************************************)
VtParams_new == [buf |-> [i \in 1..ParamsCap |-> 0], len |-> 0]

VtParams_push(p, v) ==
    IF p.len = ParamsCap THEN p
    ELSE [buf |-> [p.buf EXCEPT ![p.len + 1] = v], len |-> p.len + 1]

\* Returns [p, panic]: with overflow checks (oc) the u16 multiplication or
\* addition panics where it would otherwise wrap.
\* Mutant of push_csi_char: a digit replaces the current element instead of
\* being accumulated into it.
push_csi_char_replaces(p, c, oc) ==
    IF first_byte(c) = 59 THEN [p |-> VtParams_push(p, 0), panic |-> FALSE]
    ELSE
        LET p1 == IF p.len = 0 THEN VtParams_push(p, 0) ELSE p
            digit == ((to_char(c) % U16) - 48 + U16) % U16
        IN  [p |-> [p1 EXCEPT !.buf[p1.len] = digit], panic |-> FALSE]

push_csi_char(p, c, oc) ==
    IF first_byte(c) = 59 THEN [p |-> VtParams_push(p, 0), panic |-> FALSE]
    ELSE
        LET p1 == IF p.len = 0 THEN VtParams_push(p, 0) ELSE p
            current == p1.buf[p1.len]
            digit == ((to_char(c) % U16) - 48 + U16) % U16
            mul == current * 10
            sum == (mul % U16) + digit
        IN  IF oc /\ mul >= U16 THEN [p |-> p1, panic |-> TRUE]
            ELSE IF oc /\ sum >= U16
                THEN [p |-> [p1 EXCEPT !.buf[p1.len] = mul], panic |-> TRUE]
            ELSE [p |-> [p1 EXCEPT !.buf[p1.len] = sum % U16], panic |-> FALSE]

VtParams_clear(p) == [p EXCEPT !.len = 0]

VtParams_values(p) == SubSeq(p.buf, 1, p.len)

(***************************************************************************)
(* VtIntermediates.                                                        *)
(***************************************************************************)
VtIntermediates_new == [buf |-> [i \in 1..IntermediatesCap |-> 0], len |-> 0]

Min(a, b) == IF a < b THEN a ELSE b

VtIntermediates_len(im) == Min(IntermediatesCap, im.len)

\* Mutant of VtIntermediates::push: a push on a full buffer replaces the last
\* stored byte.
VtIntermediates_push_replaces_last(im, b) ==
    LET len == VtIntermediates_len(im)
    IN  IF len >= IntermediatesCap
        THEN [buf |-> [im.buf EXCEPT ![IntermediatesCap] = b], len |-> OVERRUN_LEN]
        ELSE [buf |-> [im.buf EXCEPT ![len + 1] = b], len |-> im.len + 1]

VtIntermediates_push(im, b) ==
    LET len == VtIntermediates_len(im)
    IN  IF len >= IntermediatesCap THEN [im EXCEPT !.len = OVERRUN_LEN]
        ELSE [buf |-> [im.buf EXCEPT ![len + 1] = b], len |-> im.len + 1]

VtIntermediates_clear(im) == [im EXCEPT !.len = 0]

VtIntermediates_chars(im) == SubSeq(im.buf, 1, VtIntermediates_len(im))

has_overrun(im) == im.len > IntermediatesCap

(***************************************************************************)
(* Events.  c is the u8char payload, b the byte payload; params and        *)
(* intermediates are the buffers a dispatch event borrows.                 *)
(***************************************************************************)
NoBuf == [buf |-> <<>>, len |-> 0]

Event(type, c, b, p, im) ==
    [type |-> type, c |-> c, b |-> b, params |-> p, intermediates |-> im]

NoEvent == Event("None", <<>>, 0, NoBuf, NoBuf)

CharEvent(type, c) == Event(type, c, 0, NoBuf, NoBuf)

ByteEvent(type, b) == Event(type, <<>>, b, NoBuf, NoBuf)

PrintEnd == Event("PrintEnd", <<>>, 0, NoBuf, NoBuf)

\* Mutant of Transition::new: the None entries are delivered as well.
Transition_keeps_none(evs) == evs

\* Transition::new keeps the Some(..) entries, in order.
Transition(evs) == SelectSeq(evs, LAMBDA e : e.type # "None")

(***************************************************************************)
(* The machine as one value.                                               *)
(***************************************************************************)
VtMachine_new ==
    [state |-> "Literal", intermediates |-> VtIntermediates_new,
     params |-> VtParams_new, in_literal_chunk |-> FALSE]

\* Mutant of action_buffers: the Error action leaves the buffers as they are.
action_buffers_error_keeps(m, a, c, oc) ==
    CASE a = "Collect" ->
            [m |-> [m EXCEPT !.intermediates = VtIntermediates_push(@, first_byte(c))],
             panic |-> FALSE]
      [] a = "Param" ->
            [m |-> [m EXCEPT !.params = push_csi_char(@, c, oc).p],
             panic |-> push_csi_char(m.params, c, oc).panic]
      [] a = "Clear" ->
            [m |-> [m EXCEPT !.intermediates = VtIntermediates_clear(@),
                             !.params = VtParams_clear(@)],
             panic |-> FALSE]
      [] OTHER -> [m |-> m, panic |-> FALSE]

\* VtMachine::action, first half: the buffer effect of an action.
\* Returns [m, panic].
action_buffers(m, a, c, oc) ==
    CASE a = "Collect" ->
            [m |-> [m EXCEPT !.intermediates = VtIntermediates_push(@, first_byte(c))],
             panic |-> FALSE]
      [] a = "Param" ->
            [m |-> [m EXCEPT !.params = push_csi_char(@, c, oc).p],
             panic |-> push_csi_char(m.params, c, oc).panic]
      [] a \in {"Clear", "Error"} ->
            [m |-> [m EXCEPT !.intermediates = VtIntermediates_clear(@),
                             !.params = VtParams_clear(@)],
             panic |-> FALSE]
      [] OTHER -> [m |-> m, panic |-> FALSE]

\* Mutant of action_chunk: a print run is ended without a PrintEnd.
action_chunk_silent(r, a) ==
    IF r.panic THEN [m |-> r.m, ev |-> NoEvent, panic |-> TRUE]
    ELSE IF a = "Print"
        THEN [m |-> [r.m EXCEPT !.in_literal_chunk = TRUE], ev |-> NoEvent, panic |-> FALSE]
    ELSE [m |-> [r.m EXCEPT !.in_literal_chunk = FALSE], ev |-> NoEvent, panic |-> FALSE]

\* Mutant of action_chunk: PrintEnd is emitted but the flag is left set.
action_chunk_flag_stays(r, a) ==
    IF r.panic THEN [m |-> r.m, ev |-> NoEvent, panic |-> TRUE]
    ELSE IF a = "Print"
        THEN [m |-> [r.m EXCEPT !.in_literal_chunk = TRUE], ev |-> NoEvent, panic |-> FALSE]
    ELSE IF r.m.in_literal_chunk
        THEN [m |-> r.m, ev |-> PrintEnd, panic |-> FALSE]
    ELSE [m |-> r.m, ev |-> NoEvent, panic |-> FALSE]

\* VtMachine::action, second half: the print-run bookkeeping on the machine
\* r.m the buffer effect left.  Returns [m, ev, panic].
action_chunk(r, a) ==
    IF r.panic THEN [m |-> r.m, ev |-> NoEvent, panic |-> TRUE]
    ELSE IF a = "Print"
        THEN [m |-> [r.m EXCEPT !.in_literal_chunk = TRUE], ev |-> NoEvent, panic |-> FALSE]
    ELSE IF r.m.in_literal_chunk
        THEN [m |-> [r.m EXCEPT !.in_literal_chunk = FALSE], ev |-> PrintEnd, panic |-> FALSE]
    ELSE [m |-> r.m, ev |-> NoEvent, panic |-> FALSE]

action(m, a, c, oc) == action_chunk(action_buffers(m, a, c, oc), a)

\* VtMachine::action_event
action_event(m, a, c) ==
    CASE a = "Print" -> CharEvent("Print", c)
      [] a = "Execute" -> ByteEvent("ExecuteCtrl", first_byte(c))
      [] a = "Hook" -> Event("DcsStart", <<>>, first_byte(c), m.params, m.intermediates)
      [] a = "Put" -> CharEvent("DcsChar", c)
      [] a = "OscStart" -> ByteEvent("OscStart", first_byte(c))
      [] a = "OscPut" -> CharEvent("OscChar", c)
      [] a = "CsiDispatch" ->
            Event("DispatchCsi", <<>>, first_byte(c), m.params, m.intermediates)
      [] a = "EscDispatch" ->
            Event("DispatchEsc", <<>>, first_byte(c), NoBuf, m.intermediates)
      [] a = "Error" -> CharEvent("Error", c)
      [] OTHER -> NoEvent

\* A call's outcome: the machine afterwards, the events returned, and whether
\* the call panicked (then nothing is returned).
Outcome(m, evs, panic) ==
    [m |-> m, events |-> IF panic THEN <<>> ELSE Transition(evs), panic |-> panic]

\* r is what action(m, a, c) returned.
just_action_events(r, a, c) ==
    Outcome(r.m, <<r.ev, action_event(r.m, a, c)>>, r.panic)

just_action(m, a, c, oc) == just_action_events(action(m, a, c, oc), a, c)

\* Mutant of no_change: the buffers are cleared.
no_change_clears(m) ==
    Outcome([m EXCEPT !.intermediates = VtIntermediates_clear(@),
                      !.params = VtParams_clear(@)],
            <<>>, FALSE)

no_change(m) == Outcome(m, <<>>, FALSE)

\* Mutant of state_entry_action: entering Escape does not clear the buffers.
state_entry_action_escape_keeps(s) ==
    CASE s \in {"CtrlStart", "DevCtrlStart"} -> "Clear"
      [] s = "OsCmd" -> "OscStart"
      [] s = "DevCtrlPassthru" -> "Hook"
      [] OTHER -> "NoEntry"

state_entry_action(s) ==
    CASE s \in {"Escape", "CtrlStart", "DevCtrlStart"} -> "Clear"
      [] s = "OsCmd" -> "OscStart"
      [] s = "DevCtrlPassthru" -> "Hook"
      [] OTHER -> "NoEntry"

state_exit_event(s, c) ==
    CASE s = "OsCmd" -> ByteEvent("OscEnd", first_byte(c))
      [] s = "DevCtrlPassthru" -> ByteEvent("DcsEnd", first_byte(c))
      [] OTHER -> NoEvent

\* change_state, step by step: the entry action's cleanup on the machine m0
\* that already holds the new state ...
entry_cleanup(m0, s, c, oc) ==
    IF state_entry_action(s) # "NoEntry" THEN action(m0, state_entry_action(s), c, oc)
    ELSE [m |-> m0, ev |-> NoEvent, panic |-> FALSE]

entry_event(m, s, c) ==
    IF state_entry_action(s) # "NoEntry" THEN action_event(m, state_entry_action(s), c)
    ELSE NoEvent

\* Mutant of change_state_events: the exit event of the previous state is
\* placed after the main event.
change_state_events_exit_after_main(exit_event, entry_cleanup_event, r2, s, transition, c) ==
    Outcome(r2.m,
            <<entry_cleanup_event, r2.ev, action_event(r2.m, transition, c),
              exit_event, entry_event(r2.m, s, c)>>,
            r2.panic)

\* Mutant of change_state_events: the main event is placed before the main
\* action's cleanup event.
change_state_events_main_first(exit_event, entry_cleanup_event, r2, s, transition, c) ==
    Outcome(r2.m,
            <<exit_event, entry_cleanup_event, action_event(r2.m, transition, c),
              r2.ev, entry_event(r2.m, s, c)>>,
            r2.panic)

\* ... then, r2 being what the main action returned, the five event slots.
change_state_events(exit_event, entry_cleanup_event, r2, s, transition, c) ==
    Outcome(r2.m,
            <<exit_event, entry_cleanup_event, r2.ev,
              action_event(r2.m, transition, c), entry_event(r2.m, s, c)>>,
            r2.panic)

\* r1 is what the entry action's cleanup returned.
change_state_main(exit_event, r1, s, transition, c, oc) ==
    IF r1.panic THEN Outcome(r1.m, <<>>, TRUE)
    ELSE change_state_events(exit_event, r1.ev, action(r1.m, transition, c, oc),
                             s, transition, c)

change_state(m, s, transition, c, oc) ==
    change_state_main(state_exit_event(m.state, c),
                      entry_cleanup([m EXCEPT !.state = s], s, c, oc),
                      s, transition, c, oc)

error(m, c, oc) == change_state(m, "Literal", "Error", c, oc)

(***************************************************************************)
(* write_u8char: the universal transitions, then one match per state.      *)
(***************************************************************************)
InRange(fb, lo, hi) == lo <= fb /\ fb <= hi

\* b'\x00'..=b'\x17' | b'\x19' | b'\x1c'..=b'\x1f'
C0Ctrl(fb) == InRange(fb, 0, 23) \/ fb = 25 \/ InRange(fb, 28, 31)

\* b'\x18' | b'\x1a' | b'\x80'..=b'\x8f' | b'\x91'..=b'\x97' | b'\x99' | b'\x9a'
UniversalExecute(fb) ==
    fb = 24 \/ fb = 26 \/ InRange(fb, 128, 143) \/ InRange(fb, 145, 151) \/ fb = 153 \/ fb = 154

\* Mutant of IsUniversal: the arm for 0x1a is forgotten.
IsUniversal_without_1a(fb) ==
    (UniversalExecute(fb) /\ fb # 26) \/ fb \in {156, 27, 152, 158, 159, 144, 157, 155}

IsUniversal(fb) ==
    UniversalExecute(fb) \/ fb \in {156, 27, 152, 158, 159, 144, 157, 155}

\* The calls the arms of write_u8char's matches return.
ChangeState(s, a) == [call |-> "change_state", state |-> s, action |-> a]

JustAction(a) == [call |-> "just_action", state |-> "stay", action |-> a]

NoChange == [call |-> "no_change", state |-> "stay", action |-> "None"]

ErrorOut == [call |-> "error", state |-> "Literal", action |-> "Error"]

universal(fb) ==
    CASE UniversalExecute(fb) -> ChangeState("Literal", "Execute")
      [] fb = 156 -> ChangeState("Literal", "None")
      [] fb = 27 -> ChangeState("Escape", "None")
      [] fb \in {152, 158, 159} -> ChangeState("IgnoreUntilSt", "None")
      [] fb = 144 -> ChangeState("DevCtrlStart", "None")
      [] fb = 157 -> ChangeState("OsCmd", "None")
      [] fb = 155 -> ChangeState("CtrlStart", "None")

\* Mutant of in_Literal: a scalar that is not ASCII is an error, as in the
\* other states.
in_Literal_rejects_non_ascii(fb) ==
    IF C0Ctrl(fb) THEN JustAction("Execute")
    ELSE IF fb >= 128 THEN ErrorOut
    ELSE JustAction("Print")

in_Literal(fb) ==
    IF C0Ctrl(fb) THEN JustAction("Execute")
    ELSE JustAction("Print")

\* Mutant of in_Escape: DEL is printed instead of being ignored.
in_Escape_prints_del(fb) ==
    CASE C0Ctrl(fb) -> JustAction("Execute")
      [] fb = 127 -> JustAction("Print")
      [] InRange(fb, 32, 47) -> ChangeState("EscapeIntermediate", "Collect")
      [] InRange(fb, 48, 79) \/ InRange(fb, 81, 87) \/ fb \in {89, 90, 92}
           \/ InRange(fb, 96, 126) -> ChangeState("Literal", "EscDispatch")
      [] fb = 91 -> ChangeState("CtrlStart", "None")
      [] fb = 93 -> ChangeState("OsCmd", "None")
      [] fb = 80 -> ChangeState("DevCtrlStart", "None")
      [] fb \in {88, 94, 95} -> ChangeState("IgnoreUntilSt", "None")
      [] OTHER -> ErrorOut

in_Escape(fb) ==
    CASE C0Ctrl(fb) -> JustAction("Execute")
      [] fb = 127 -> NoChange
      [] InRange(fb, 32, 47) -> ChangeState("EscapeIntermediate", "Collect")
      [] InRange(fb, 48, 79) \/ InRange(fb, 81, 87) \/ fb \in {89, 90, 92}
           \/ InRange(fb, 96, 126) -> ChangeState("Literal", "EscDispatch")
      [] fb = 91 -> ChangeState("CtrlStart", "None")
      [] fb = 93 -> ChangeState("OsCmd", "None")
      [] fb = 80 -> ChangeState("DevCtrlStart", "None")
      [] fb \in {88, 94, 95} -> ChangeState("IgnoreUntilSt", "None")
      [] OTHER -> ErrorOut

\* Mutant of in_EscapeIntermediate: 0x80..0xff are collected like the
\* intermediates 0x20..0x2f.
in_EscapeIntermediate_collects_high(fb) ==
    CASE C0Ctrl(fb) -> JustAction("Execute")
      [] fb = 127 -> NoChange
      [] InRange(fb, 32, 47) \/ fb >= 128 -> JustAction("Collect")
      [] InRange(fb, 48, 126) -> ChangeState("Literal", "EscDispatch")
      [] OTHER -> ErrorOut

in_EscapeIntermediate(fb) ==
    CASE C0Ctrl(fb) -> JustAction("Execute")
      [] fb = 127 -> NoChange
      [] InRange(fb, 32, 47) -> JustAction("Collect")
      [] InRange(fb, 48, 126) -> ChangeState("Literal", "EscDispatch")
      [] OTHER -> ErrorOut

in_CtrlStart(fb) ==
    CASE C0Ctrl(fb) -> JustAction("Execute")
      [] fb = 127 -> NoChange
      [] InRange(fb, 32, 47) -> ChangeState("CtrlIntermediate", "Collect")
      [] fb = 58 -> ChangeState("CtrlMalformed", "None")
      [] InRange(fb, 48, 57) \/ fb = 59 -> ChangeState("CtrlParam", "Param")
      [] InRange(fb, 60, 63) -> ChangeState("CtrlParam", "Collect")
      [] InRange(fb, 64, 126) -> ChangeState("Literal", "CsiDispatch")
      [] OTHER -> ErrorOut

\* Mutant of in_CtrlParam: 0x3c..0x3f are collected instead of making the
\* sequence malformed.
in_CtrlParam_collects_private(fb) ==
    CASE C0Ctrl(fb) -> JustAction("Execute")
      [] InRange(fb, 48, 57) \/ fb = 59 -> JustAction("Param")
      [] fb = 127 -> NoChange
      [] fb = 58 -> ChangeState("CtrlMalformed", "None")
      [] InRange(fb, 60, 63) -> JustAction("Collect")
      [] InRange(fb, 32, 47) -> ChangeState("CtrlIntermediate", "Collect")
      [] InRange(fb, 64, 126) -> ChangeState("Literal", "CsiDispatch")
      [] OTHER -> ErrorOut

in_CtrlParam(fb) ==
    CASE C0Ctrl(fb) -> JustAction("Execute")
      [] InRange(fb, 48, 57) \/ fb = 59 -> JustAction("Param")
      [] fb = 127 -> NoChange
      [] fb = 58 \/ InRange(fb, 60, 63) -> ChangeState("CtrlMalformed", "None")
      [] InRange(fb, 32, 47) -> ChangeState("CtrlIntermediate", "Collect")
      [] InRange(fb, 64, 126) -> ChangeState("Literal", "CsiDispatch")
      [] OTHER -> ErrorOut

\* Mutant of in_CtrlIntermediate: a C0 control aborts the sequence.
in_CtrlIntermediate_c0_aborts(fb) ==
    CASE C0Ctrl(fb) -> ChangeState("Literal", "Execute")
      [] InRange(fb, 32, 47) -> JustAction("Collect")
      [] fb = 127 -> NoChange
      [] fb = 58 \/ InRange(fb, 60, 63) -> ChangeState("CtrlMalformed", "None")
      [] InRange(fb, 64, 126) -> ChangeState("Literal", "CsiDispatch")
      [] OTHER -> ErrorOut

in_CtrlIntermediate(fb) ==
    CASE C0Ctrl(fb) -> JustAction("Execute")
      [] InRange(fb, 32, 47) -> JustAction("Collect")
      [] fb = 127 -> NoChange
      [] fb = 58 \/ InRange(fb, 60, 63) -> ChangeState("CtrlMalformed", "None")
      [] InRange(fb, 64, 126) -> ChangeState("Literal", "CsiDispatch")
      [] OTHER -> ErrorOut

\* Mutant of in_CtrlMalformed: the final byte dispatches the sequence.
in_CtrlMalformed_dispatches(fb) ==
    CASE C0Ctrl(fb) -> JustAction("Execute")
      [] InRange(fb, 32, 63) \/ fb = 127 -> NoChange
      [] InRange(fb, 64, 126) -> ChangeState("Literal", "CsiDispatch")
      [] OTHER -> ErrorOut

in_CtrlMalformed(fb) ==
    CASE C0Ctrl(fb) -> JustAction("Execute")
      [] InRange(fb, 32, 63) \/ fb = 127 -> NoChange
      [] InRange(fb, 64, 126) -> ChangeState("Literal", "None")
      [] OTHER -> ErrorOut

in_DevCtrlStart(fb) ==
    CASE C0Ctrl(fb) \/ fb = 127 -> NoChange
      [] fb = 58 -> ChangeState("DevCtrlMalformed", "None")
      [] InRange(fb, 32, 47) -> ChangeState("DevCtrlIntermediate", "Collect")
      [] InRange(fb, 48, 57) \/ fb = 59 -> ChangeState("DevCtrlParam", "Param")
      [] InRange(fb, 60, 63) -> ChangeState("DevCtrlParam", "Collect")
      [] InRange(fb, 64, 126) -> ChangeState("DevCtrlPassthru", "None")
      [] OTHER -> ErrorOut

in_DevCtrlParam(fb) ==
    CASE C0Ctrl(fb) \/ fb = 127 -> NoChange
      [] InRange(fb, 48, 57) \/ fb = 59 -> JustAction("Param")
      [] fb = 58 \/ InRange(fb, 60, 63) -> ChangeState("DevCtrlMalformed", "None")
      [] InRange(fb, 32, 47) -> ChangeState("DevCtrlIntermediate", "Collect")
      [] InRange(fb, 64, 126) -> ChangeState("DevCtrlPassthru", "None")
      [] OTHER -> ErrorOut

in_DevCtrlIntermediate(fb) ==
    CASE C0Ctrl(fb) \/ fb = 127 -> NoChange
      [] InRange(fb, 32, 47) -> JustAction("Collect")
      [] InRange(fb, 48, 63) -> ChangeState("DevCtrlMalformed", "None")
      [] InRange(fb, 64, 126) -> ChangeState("DevCtrlPassthru", "None")
      [] OTHER -> ErrorOut

in_DevCtrlPassthru(fb) ==
    CASE C0Ctrl(fb) \/ InRange(fb, 32, 126) -> JustAction("Put")
      [] fb = 127 -> NoChange
      [] OTHER -> ErrorOut

in_DevCtrlMalformed(fb) ==
    IF C0Ctrl(fb) \/ InRange(fb, 32, 127) THEN NoChange ELSE ErrorOut

in_OsCmd(fb) ==
    CASE C0Ctrl(fb) -> NoChange
      [] InRange(fb, 32, 127) -> JustAction("OscPut")
      [] OTHER -> ErrorOut

in_IgnoreUntilSt(fb) ==
    IF C0Ctrl(fb) \/ InRange(fb, 32, 127) THEN NoChange ELSE ErrorOut

\* The arm of the per-state match that write_u8char takes.
per_state(s, fb) ==
    CASE s = "Literal" -> in_Literal(fb)
      [] s = "Escape" -> in_Escape(fb)
      [] s = "EscapeIntermediate" -> in_EscapeIntermediate(fb)
      [] s = "CtrlStart" -> in_CtrlStart(fb)
      [] s = "CtrlParam" -> in_CtrlParam(fb)
      [] s = "CtrlIntermediate" -> in_CtrlIntermediate(fb)
      [] s = "CtrlMalformed" -> in_CtrlMalformed(fb)
      [] s = "DevCtrlStart" -> in_DevCtrlStart(fb)
      [] s = "DevCtrlParam" -> in_DevCtrlParam(fb)
      [] s = "DevCtrlIntermediate" -> in_DevCtrlIntermediate(fb)
      [] s = "DevCtrlPassthru" -> in_DevCtrlPassthru(fb)
      [] s = "DevCtrlMalformed" -> in_DevCtrlMalformed(fb)
      [] s = "OsCmd" -> in_OsCmd(fb)
      [] s = "IgnoreUntilSt" -> in_IgnoreUntilSt(fb)

\* The call write_u8char returns for first byte fb in state s.
transition_for(s, fb) == IF IsUniversal(fb) THEN universal(fb) ELSE per_state(s, fb)

\* Makes the call d names.
dispatch(m, d, c, oc) ==
    CASE d.call = "change_state" -> change_state(m, d.state, d.action, c, oc)
      [] d.call = "just_action" -> just_action(m, d.action, c, oc)
      [] d.call = "no_change" -> no_change(m)
      [] d.call = "error" -> error(m, c, oc)

write_u8char(m, c, oc) == dispatch(m, transition_for(m.state, first_byte(c)), c, oc)

write_char(m, c, oc) == write_u8char(m, from_char(c), oc)

\* Mutant of write_end: PrintEnd is emitted whether or not a print run is open.
write_end_always_print_end(m) ==
    Outcome([m EXCEPT !.state = "Literal",
                      !.intermediates = VtIntermediates_clear(@),
                      !.params = VtParams_clear(@),
                      !.in_literal_chunk = FALSE],
            <<PrintEnd>>, FALSE)

\* Mutant of write_end: the intermediates are not cleared.
write_end_keeps_intermediates(m) ==
    Outcome([m EXCEPT !.state = "Literal", !.params = VtParams_clear(@),
                      !.in_literal_chunk = FALSE],
            <<IF m.in_literal_chunk THEN PrintEnd ELSE NoEvent>>, FALSE)

write_end(m) ==
    LET m1 == [m EXCEPT !.state = "Literal",
                        !.intermediates = VtIntermediates_clear(@),
                        !.params = VtParams_clear(@)]
        event == IF m1.in_literal_chunk THEN PrintEnd ELSE NoEvent
    IN  Outcome([m1 EXCEPT !.in_literal_chunk = FALSE], <<event>>, FALSE)

(***************************************************************************)
(* The state machine: a caller that writes scalars and ends the stream.    *)
(***************************************************************************)
Machine ==
    [state |-> state, intermediates |-> intermediates, params |-> params,
     in_literal_chunk |-> in_literal_chunk]

NoCall == [op |-> "new", c |-> 0]

NoArm == [call |-> "none", state |-> "stay", action |-> "None"]

\* Bounds of the exploration: the caller stops adding to a parameter list
\* once it holds MaxParams values or a value above MaxParamValue.
MaxParams == 2
MaxParamValue == 1

ParamsWithin(p) ==
    /\ p.len <= MaxParams
    /\ \A i \in 1..p.len : p.buf[i] <= MaxParamValue

\* The scalars the caller writes: one or two of each class the driver tells apart.
Scalars ==
    {7,       \* BEL, a C0 control
     24,      \* CAN, universal
     27,      \* ESC
     32,      \* ' ', an intermediate
     49,      \* '1'
     58,      \* ':'
     59,      \* ';'
     80,      \* 'P'
     88,      \* 'X'
     91,      \* '['
     93,      \* ']'
     109,     \* 'm'
     127,     \* DEL
     157}     \* U+009D, a C1 control and a non-ASCII scalar

LastType(before, evs) == IF evs = <<>> THEN before ELSE evs[Len(evs)].type

\* The type of the last event of this stream emitted before the call that begins now.
PriorNow == IF call.op = "write_end" THEN "None" ELSE LastType(prior, events)

Init ==
    /\ state = VtMachine_new.state
    /\ intermediates = VtMachine_new.intermediates
    /\ params = VtMachine_new.params
    /\ in_literal_chunk = VtMachine_new.in_literal_chunk
    /\ events = <<>>
    /\ prior = "None"
    /\ call = NoCall
    /\ did = NoArm
    /\ pre = VtMachine_new
    /\ panicked = FALSE
    /\ fresh = VtMachine_new
    /\ fresh_events = <<>>
    /\ open = {}
    /\ input = <<>>
    /\ fields = <<>>

\* The call returns (or panics) with outcome r.
Commit(r, op, c) ==
    /\ state' = r.m.state
    /\ intermediates' = r.m.intermediates
    /\ params' = r.m.params
    /\ in_literal_chunk' = r.m.in_literal_chunk
    /\ events' = r.events
    /\ panicked' = r.panic
    /\ prior' = PriorNow
    /\ call' = [op |-> op, c |-> c]
    /\ did' = IF op = "write_char"
              THEN transition_for(state, first_byte(from_char(c)))
              ELSE NoArm
    /\ pre' = Machine

\* The outcomes of write_char(c) over the builds: where the checked build
\* panics, the unchecked one wraps.
WriteOutcomes(m, c) ==
    LET checked == write_char(m, c, TRUE)
    IN  IF checked.panic THEN {checked, write_char(m, c, FALSE)} ELSE {checked}

WriteChar(c) ==
    /\ ~panicked
    /\ \E r \in WriteOutcomes(Machine, c) :
          /\ ParamsWithin(r.m.params)
          /\ Commit(r, "write_char", c)
    /\ UNCHANGED <<fresh, fresh_events, input, fields, open>>

WriteEnd ==
    /\ ~panicked
    /\ Commit(write_end(Machine), "write_end", 0)
    /\ UNCHANGED <<fresh, fresh_events, input, fields, open>>

Next ==
    \/ \E c \in Scalars : WriteChar(c)
    \/ WriteEnd

Spec == Init /\ [][Next]_vars

(***************************************************************************)
(* What a caller sees of the event stream.                                 *)
(***************************************************************************)
EventTypes == [i \in 1..Len(events) |-> events[i].type]

\* The last event emitted before the last call (if any), then the types of
\* the events the last call returned: every pair of neighbours of the
\* stream appears in the Trail of some state.
Trail == IF prior = "None" THEN EventTypes ELSE <<prior>> \o EventTypes

Emitted(type) == \E i \in 1..Len(events) : events[i].type = type

CountOf(type) == Cardinality({i \in 1..Len(events) : events[i].type = type})

(***************************************************************************)
(* C1: every maximal run of Print events is followed at once by exactly    *)
(* one PrintEnd, a trailing run being closed by write_end, and no PrintEnd *)
(* is emitted that does not directly follow a Print.                       *)
(***************************************************************************)
C1_PrintEndClosesEachRun ==
    /\ \A i \in 1..(Len(Trail) - 1) :
          /\ (Trail[i] = "Print" /\ Trail[i + 1] # "Print") => Trail[i + 1] = "PrintEnd"
          /\ Trail[i + 1] = "PrintEnd" => Trail[i] = "Print"
    /\ (prior = "None" /\ events # <<>>) => events[1].type # "PrintEnd"
    /\ call.op = "write_end" => LastType(prior, events) # "Print"

\* A run of two Prints has just been closed by write_end.
C1_Witness ==
    /\ call.op = "write_end"
    /\ prior = "Print"
    /\ pre.in_literal_chunk
    /\ events = <<PrintEnd>>

(***************************************************************************)
(* C2: the event that directly follows a Print is a Print or a PrintEnd,   *)
(* never DispatchCsi, DispatchEsc, DcsStart, OscStart, Error, ExecuteCtrl. *)
(***************************************************************************)
C2_OnlyPrintOrPrintEndAfterPrint ==
    \A i \in 1..(Len(Trail) - 1) :
        Trail[i] = "Print" =>
            /\ Trail[i + 1] \notin {"DispatchCsi", "DispatchEsc", "DcsStart", "OscStart",
                                    "Error", "ExecuteCtrl"}
            /\ Trail[i + 1] \in {"Print", "PrintEnd"}

\* A control written right after a Print: PrintEnd comes between them.
C2_Witness ==
    /\ prior = "Print"
    /\ call.op = "write_char"
    /\ Len(events) = 2
    /\ events[1].type = "PrintEnd"
    /\ events[2].type = "ExecuteCtrl"

(***************************************************************************)
(* C3: every DcsStart is followed by DcsChar events and then one DcsEnd,   *)
(* with nothing else in between, before the stream ends at write_end; and  *)
(* likewise OscStart, OscChar, OscEnd.                                     *)
(***************************************************************************)
C3_StringsAreClosed ==
    /\ \A i \in 1..(Len(Trail) - 1) :
          /\ Trail[i] \in {"DcsStart", "DcsChar"} => Trail[i + 1] \in {"DcsChar", "DcsEnd"}
          /\ Trail[i] \in {"OscStart", "OscChar"} => Trail[i + 1] \in {"OscChar", "OscEnd"}
    /\ call.op = "write_end" =>
          LastType(prior, events) \notin {"DcsStart", "DcsChar", "OscStart", "OscChar"}

(***************************************************************************)
(* C4: right after a write_char call that emits an Error event the state   *)
(* is Literal and both buffers are empty without overrun, whatever they    *)
(* held before, and the Error event carries the scalar written.            *)
(***************************************************************************)
C4_ErrorResetsMachine ==
    (call.op = "write_char" /\ Emitted("Error")) =>
        /\ state = "Literal"
        /\ params.len = 0
        /\ VtParams_values(params) = <<>>
        /\ VtIntermediates_len(intermediates) = 0
        /\ ~has_overrun(intermediates)
        /\ CountOf("Error") = 1
        /\ \A i \in 1..Len(events) :
              events[i].type = "Error" => to_char(events[i].c) = call.c

\* An Error emitted from the middle of a control sequence that had collected
\* a parameter and an intermediate.
C4_Witness ==
    /\ call.op = "write_char"
    /\ Emitted("Error")
    /\ pre.state = "CtrlIntermediate"
    /\ pre.params.len > 0
    /\ pre.intermediates.len > 0

Prefixes ==
    {<<>>,                    \* Literal, as built
     <<109>>,                 \* Literal, in a print run
     <<27, 91, 49, 32, 109>>, \* Literal, after a dispatch
     <<27>>,                  \* Escape
     <<27, 32>>,              \* EscapeIntermediate
     <<27, 32, 32, 32>>,      \* EscapeIntermediate, overrun
     <<27, 91>>,              \* CtrlStart
     <<27, 91, 49>>,          \* CtrlParam
     <<27, 91, 32>>,          \* CtrlIntermediate
     <<27, 91, 49, 32>>,      \* CtrlIntermediate, with a parameter
     <<27, 91, 58>>,          \* CtrlMalformed
     <<27, 91, 49, 32, 58>>,  \* CtrlMalformed, with a parameter and an intermediate
     <<27, 80>>,              \* DevCtrlStart
     <<27, 80, 49>>,          \* DevCtrlParam
     <<27, 80, 32>>,          \* DevCtrlIntermediate
     <<27, 80, 109>>,         \* DevCtrlPassthru
     <<27, 80, 49, 32, 109>>, \* DevCtrlPassthru, with a parameter and an intermediate
     <<27, 80, 58>>,          \* DevCtrlMalformed
     <<27, 93>>,              \* OsCmd
     <<27, 88>>}              \* IgnoreUntilSt

Probes == (0..255) \cup {8364, 65533, 128512}

\* The machine after writing the scalars of cs to m, and the type of the
\* last event emitted on the way.
RECURSIVE Run(_, _, _)
Run(m, last, cs) ==
    IF cs = <<>> THEN [m |-> m, last |-> last]
    ELSE Run(write_char(m, Head(cs), FALSE).m,
             LastType(last, write_char(m, Head(cs), FALSE).events),
             Tail(cs))

\* The machine is as r.m, after a stream whose last event had type r.last.
Starts(r) ==
    /\ state = r.m.state
    /\ intermediates = r.m.intermediates
    /\ params = r.m.params
    /\ in_literal_chunk = r.m.in_literal_chunk
    /\ events = <<>>
    /\ prior = r.last
    /\ call = NoCall
    /\ did = NoArm
    /\ pre = r.m
    /\ panicked = FALSE
    /\ fresh = VtMachine_new
    /\ fresh_events = <<>>
    /\ open = {}

InitTable ==
    /\ \E pfx \in Prefixes : Starts(Run(VtMachine_new, "None", pfx))
    /\ input = <<>>
    /\ fields = <<>>

TableWrite(c) ==
    /\ call.op = "new"
    /\ \E r \in WriteOutcomes(Machine, c) : Commit(r, "write_char", c)
    /\ UNCHANGED <<fresh, fresh_events, input, fields, open>>

NextTable == \E c \in Probes : TableWrite(c)

SpecTable == InitTable /\ [][NextTable]_vars

(***************************************************************************)
(* The transition tables of the specification (4.2), row by row: the       *)
(* scalar class, the next state and the main action.                       *)
(***************************************************************************)
TblC0 == (0..23) \cup {25} \cup (28..31)

TblUniversal ==
    <<[class |-> {24, 26}, next |-> "Literal", action |-> "Execute"],
      [class |-> (128..143) \cup (145..151) \cup {153, 154},
       next |-> "Literal", action |-> "Execute"],
      [class |-> {156}, next |-> "Literal", action |-> "None"],
      [class |-> {27}, next |-> "Escape", action |-> "None"],
      [class |-> {152, 158, 159}, next |-> "IgnoreUntilSt", action |-> "None"],
      [class |-> {144}, next |-> "DevCtrlStart", action |-> "None"],
      [class |-> {157}, next |-> "OsCmd", action |-> "None"],
      [class |-> {155}, next |-> "CtrlStart", action |-> "None"]>>

TblRow(class, next, act) == [class |-> class, next |-> next, action |-> act]

TblPerState(s) ==
    CASE s = "Literal" ->
            <<TblRow(TblC0, "stay", "Execute")>>
      [] s = "Escape" ->
            <<TblRow(TblC0, "stay", "Execute"),
              TblRow({127}, "stay", "None"),
              TblRow(32..47, "EscapeIntermediate", "Collect"),
              TblRow((48..79) \cup (81..87) \cup {89, 90, 92} \cup (96..126),
                     "Literal", "EscDispatch"),
              TblRow({91}, "CtrlStart", "None"),
              TblRow({93}, "OsCmd", "None"),
              TblRow({80}, "DevCtrlStart", "None"),
              TblRow({88, 94, 95}, "IgnoreUntilSt", "None")>>
      [] s = "EscapeIntermediate" ->
            <<TblRow(TblC0, "stay", "Execute"),
              TblRow({127}, "stay", "None"),
              TblRow(32..47, "stay", "Collect"),
              TblRow(48..126, "Literal", "EscDispatch")>>
      [] s = "CtrlStart" ->
            <<TblRow(TblC0, "stay", "Execute"),
              TblRow({127}, "stay", "None"),
              TblRow(32..47, "CtrlIntermediate", "Collect"),
              TblRow({58}, "CtrlMalformed", "None"),
              TblRow((48..57) \cup {59}, "CtrlParam", "Param"),
              TblRow(60..63, "CtrlParam", "Collect"),
              TblRow(64..126, "Literal", "CsiDispatch")>>
      [] s = "CtrlParam" ->
            <<TblRow(TblC0, "stay", "Execute"),
              TblRow((48..57) \cup {59}, "stay", "Param"),
              TblRow({127}, "stay", "None"),
              TblRow({58} \cup (60..63), "CtrlMalformed", "None"),
              TblRow(32..47, "CtrlIntermediate", "Collect"),
              TblRow(64..126, "Literal", "CsiDispatch")>>
      [] s = "CtrlIntermediate" ->
            <<TblRow(TblC0, "stay", "Execute"),
              TblRow(32..47, "stay", "Collect"),
              TblRow({127}, "stay", "None"),
              TblRow({58} \cup (60..63), "CtrlMalformed", "None"),
              TblRow(64..126, "Literal", "CsiDispatch")>>
      [] s = "CtrlMalformed" ->
            <<TblRow(TblC0, "stay", "Execute"),
              TblRow((32..63) \cup {127}, "stay", "None"),
              TblRow(64..126, "Literal", "None")>>
      [] s = "DevCtrlStart" ->
            <<TblRow(TblC0 \cup {127}, "stay", "None"),
              TblRow({58}, "DevCtrlMalformed", "None"),
              TblRow(32..47, "DevCtrlIntermediate", "Collect"),
              TblRow((48..57) \cup {59}, "DevCtrlParam", "Param"),
              TblRow(60..63, "DevCtrlParam", "Collect"),
              TblRow(64..126, "DevCtrlPassthru", "None")>>
      [] s = "DevCtrlParam" ->
            <<TblRow(TblC0 \cup {127}, "stay", "None"),
              TblRow((48..57) \cup {59}, "stay", "Param"),
              TblRow({58} \cup (60..63), "DevCtrlMalformed", "None"),
              TblRow(32..47, "DevCtrlIntermediate", "Collect"),
              TblRow(64..126, "DevCtrlPassthru", "None")>>
      [] s = "DevCtrlIntermediate" ->
            <<TblRow(TblC0 \cup {127}, "stay", "None"),
              TblRow(32..47, "stay", "Collect"),
              TblRow(48..63, "DevCtrlMalformed", "None"),
              TblRow(64..126, "DevCtrlPassthru", "None")>>
      [] s = "DevCtrlPassthru" ->
            <<TblRow(TblC0 \cup (32..126), "stay", "Put"),
              TblRow({127}, "stay", "None")>>
      [] s = "DevCtrlMalformed" ->
            <<TblRow(TblC0 \cup (32..127), "stay", "None")>>
      [] s = "OsCmd" ->
            <<TblRow(TblC0, "stay", "None"),
              TblRow(32..127, "stay", "OscPut")>>
      [] s = "IgnoreUntilSt" ->
            <<TblRow(TblC0 \cup (32..127), "stay", "None")>>

\* The last row of each state: "any other" in Literal, "otherwise" elsewhere.
TblOtherwise(s) ==
    IF s = "Literal" THEN [next |-> "stay", action |-> "Print"]
    ELSE [next |-> "Literal", action |-> "Error"]

\* The first row of rows whose class holds c, or else the row other.
RECURSIVE TblLookup(_, _, _)
TblLookup(rows, c, other) ==
    IF rows = <<>> THEN other
    ELSE IF c \in Head(rows).class
        THEN [next |-> Head(rows).next, action |-> Head(rows).action]
    ELSE TblLookup(Tail(rows), c, other)

TblIsUniversal(c) == \E i \in 1..Len(TblUniversal) : c \in TblUniversal[i].class

TblNext(row, s) == IF row.next = "stay" THEN s ELSE row.next

\* The events a call may return besides its main event.
SideEvents == {"PrintEnd", "OscEnd", "DcsEnd", "OscStart", "DcsStart"}

LastEvent == events[Len(events)]

\* What the main action a of the call just made has visibly done.
MainEffect(a) ==
    CASE a = "Print" ->
            /\ events # <<>> /\ LastEvent.type = "Print"
            /\ to_char(LastEvent.c) = call.c
            /\ in_literal_chunk
      [] a = "Execute" ->
            /\ events # <<>> /\ LastEvent.type = "ExecuteCtrl" /\ LastEvent.b = call.c
      [] a = "Put" -> events = <<CharEvent("DcsChar", from_char(call.c))>>
      [] a = "OscPut" -> events = <<CharEvent("OscChar", from_char(call.c))>>
      [] a = "CsiDispatch" ->
            /\ events # <<>> /\ LastEvent.type = "DispatchCsi" /\ LastEvent.b = call.c
            /\ VtParams_values(LastEvent.params) = VtParams_values(pre.params)
            /\ VtIntermediates_chars(LastEvent.intermediates)
                  = VtIntermediates_chars(pre.intermediates)
      [] a = "EscDispatch" ->
            /\ events # <<>> /\ LastEvent.type = "DispatchEsc" /\ LastEvent.b = call.c
            /\ VtIntermediates_chars(LastEvent.intermediates)
                  = VtIntermediates_chars(pre.intermediates)
      [] a = "Error" -> Emitted("Error")
      [] a = "Collect" ->
            /\ \A i \in 1..Len(events) : events[i].type \in SideEvents
            /\ VtIntermediates_chars(intermediates) =
                  IF Len(VtIntermediates_chars(pre.intermediates)) < IntermediatesCap
                  THEN Append(VtIntermediates_chars(pre.intermediates), call.c)
                  ELSE VtIntermediates_chars(pre.intermediates)
            /\ params = pre.params
      [] a = "Param" ->
            /\ \A i \in 1..Len(events) : events[i].type \in SideEvents
            /\ ~panicked =>
                  VtParams_values(params) =
                      IF call.c = 59 THEN Append(VtParams_values(pre.params), 0)
                      ELSE IF pre.params.len = 0 THEN <<call.c - 48>>
                      ELSE [VtParams_values(pre.params) EXCEPT
                               ![pre.params.len] = (@ * 10 + (call.c - 48)) % U16]
            /\ intermediates = pre.intermediates
      [] a = "None" ->
            /\ \A i \in 1..Len(events) : events[i].type \in SideEvents
            /\ state = pre.state => (events = <<>> /\ Machine = pre)

(***************************************************************************)
(* C5: for every state and every ASCII scalar no universal rule matches,   *)
(* write_char moves to the next state and performs the main action that    *)
(* the per-state table of the specification gives.                         *)
(***************************************************************************)
C5_PerStateTable ==
    (call.op = "write_char" /\ call.c \in 0..127 /\ ~TblIsUniversal(call.c)) =>
        /\ state = TblNext(TblLookup(TblPerState(pre.state), call.c, TblOtherwise(pre.state)),
                           pre.state)
        /\ did.action =
              TblLookup(TblPerState(pre.state), call.c, TblOtherwise(pre.state)).action
        /\ MainEffect(did.action)

\* '?' written in CtrlParam: the table row "0x3A, 0x3C..0x3F -> CtrlMalformed, None".
C5_Witness ==
    /\ call.op = "write_char"
    /\ call.c = 63
    /\ pre.state = "CtrlParam"
    /\ state = "CtrlMalformed"
    /\ did.action = "None"

(***************************************************************************)
(* C6: from every state U+0018 and U+001A leave the machine in Literal     *)
(* with ExecuteCtrl of that byte as the last event, and U+001B leaves it   *)
(* in Escape with both buffers empty and no main event, whatever the       *)
(* per-state rules say.                                                    *)
(***************************************************************************)
C6_UniversalC0 ==
    call.op = "write_char" =>
        /\ call.c \in {24, 26} =>
              /\ state = "Literal"
              /\ events # <<>>
              /\ LastEvent = ByteEvent("ExecuteCtrl", call.c)
              /\ CountOf("ExecuteCtrl") = 1
        /\ call.c = 27 =>
              /\ state = "Escape"
              /\ params.len = 0
              /\ intermediates.len = 0
              /\ \A i \in 1..Len(events) : events[i].type \in {"PrintEnd", "OscEnd", "DcsEnd"}

\* U+001A written in CtrlIntermediate with a parameter and an intermediate collected.
C6_Witness ==
    /\ call.op = "write_char"
    /\ call.c = 26
    /\ pre.state = "CtrlIntermediate"
    /\ pre.params.len > 0
    /\ pre.intermediates.len > 0
    /\ state = "Literal"

(***************************************************************************)
(* C7: from every state a C1 scalar written with write_char takes its      *)
(* universal transition: U+009B to CtrlStart, U+0090 to DevCtrlStart,      *)
(* U+009D to OsCmd with OscStart(0x9D), U+0098 / U+009E / U+009F to        *)
(* IgnoreUntilSt, U+009C to Literal without a main event, the other C1     *)
(* controls below U+009B to Literal with ExecuteCtrl of the byte.          *)
(***************************************************************************)
C7_UniversalC1 ==
    (call.op = "write_char" /\ call.c \in 128..159 /\ TblIsUniversal(call.c)) =>
        /\ state = TblLookup(TblUniversal, call.c, TblOtherwise(pre.state)).next
        /\ did.action = TblLookup(TblUniversal, call.c, TblOtherwise(pre.state)).action
        /\ call.c = 157 => (events # <<>> /\ LastEvent = ByteEvent("OscStart", 157))
        /\ did.action = "Execute" =>
              (events # <<>> /\ LastEvent = ByteEvent("ExecuteCtrl", call.c))
        /\ ~Emitted("Print")
        /\ ~Emitted("Error")

(***************************************************************************)
(* SpecCsi: a machine in Literal is fed ESC '[', decimal fields separated  *)
(* by ';', a final byte and one printable character, one scalar per step.  *)
(* `fields` keeps the digit strings that were rendered into `input`.       *)
(***************************************************************************)
\* Digit strings: "0", "7", "42", "65535", "007", "60000".
FieldPool ==
    <<<<48>>, <<55>>, <<52, 50>>, <<54, 53, 53, 51, 53>>, <<48, 48, 55>>,
      <<54, 48, 48, 48, 48>>>>

\* k fields taken from the pool in rotation, starting at offset off.
FieldsFrom(k, off) == [i \in 1..k |-> FieldPool[((i + off) % Len(FieldPool)) + 1]]

\* The fields joined by ';', as format_csi of the tests writes them.
RECURSIVE JoinFields(_)
JoinFields(fs) ==
    IF Len(fs) = 1 THEN Head(fs)
    ELSE Head(fs) \o <<59>> \o JoinFields(Tail(fs))

CsiInput(fs, f) == <<27, 91>> \o JoinFields(fs) \o <<f, 120>>

\* Machines in Literal: as built, inside a print run, and after a dispatch
\* that left values in the storage of both buffers.
LiteralStarts == {<<>>, <<109>>, <<27, 91, 49, 59, 49, 32, 109>>}

FinalBytes == {64, 109, 126}

InitCsi ==
    /\ \E pfx \in LiteralStarts : Starts(Run(VtMachine_new, "None", pfx))
    /\ \E k \in 1..ParamsCap, off \in 1..Len(FieldPool), f \in FinalBytes :
          /\ fields = FieldsFrom(k, off)
          /\ input = CsiInput(fields, f)

CsiWrite ==
    /\ ~panicked
    /\ input # <<>>
    /\ \E r \in WriteOutcomes(Machine, Head(input)) : Commit(r, "write_char", Head(input))
    /\ input' = Tail(input)
    /\ UNCHANGED <<fresh, fresh_events, fields, open>>

NextCsi == CsiWrite

SpecCsi == InitCsi /\ [][NextCsi]_vars

\* The number a digit string denotes.
RECURSIVE Decimal(_)
Decimal(ds) ==
    IF ds = <<>> THEN 0
    ELSE Decimal(SubSeq(ds, 1, Len(ds) - 1)) * 10 + (ds[Len(ds)] - 48)

FieldValues == [i \in 1..Len(fields) |-> Decimal(fields[i])]

(***************************************************************************)
(* C8: starting in Literal, ESC '[' followed by k non-empty decimal fields *)
(* (1 <= k <= 16, values <= 65535) separated by ';' and a final byte f     *)
(* emits exactly one DispatchCsi, with cmd = f, the k field values in      *)
(* order as params and no intermediates; the machine is then in Literal    *)
(* and the printable character that follows is emitted as Print.           *)
(***************************************************************************)
C8_CsiDispatch ==
    (call.op = "write_char" /\ fields # <<>>) =>
        /\ ~panicked
        /\ Len(input) > 1 => ~Emitted("DispatchCsi")
        /\ Len(input) = 1 =>
              /\ Len(events) = 1
              /\ events[1].type = "DispatchCsi"
              /\ events[1].b = call.c
              /\ VtParams_values(events[1].params) = FieldValues
              /\ VtIntermediates_chars(events[1].intermediates) = <<>>
              /\ ~has_overrun(events[1].intermediates)
              /\ state = "Literal"
        /\ Len(input) = 0 =>
              /\ events = <<CharEvent("Print", from_char(call.c))>>
              /\ state = "Literal"

\* Sixteen fields, 65535 among them, dispatched by a machine whose buffers
\* held other values before.
C8_Witness ==
    /\ call.op = "write_char"
    /\ Len(fields) = ParamsCap
    /\ Len(input) = 1
    /\ Emitted("DispatchCsi")
    /\ \E i \in 1..Len(fields) : Decimal(fields[i]) = U16 - 1
    /\ params.len = ParamsCap

(***************************************************************************)
(* SpecFresh: some input is written and write_end is called; from then on  *)
(* every scalar is written both to that machine and to `fresh`, a machine  *)
(* just returned by new().                                                 *)
(***************************************************************************)
FreshEnd ==
    /\ call.op = "new"
    /\ Commit(write_end(Machine), "write_end", 0)
    /\ fresh' = VtMachine_new
    /\ fresh_events' = <<>>
    /\ UNCHANGED <<input, fields, open>>

\* The builds whose outcome for this write has to be told apart: with
\* overflow checks, and without them when the checked build panics.
Builds(m, c) == IF write_char(m, c, TRUE).panic THEN BOOLEAN ELSE {TRUE}

\* Both machines take the outcomes r and rf of writing c.
FreshStep(r, rf, c) ==
    /\ ParamsWithin(r.m.params)
    /\ Commit(r, "write_char", c)
    /\ fresh' = rf.m
    /\ fresh_events' = rf.events

FreshWrite(c) ==
    /\ call.op # "new"
    /\ ~panicked
    /\ \E oc \in Builds(Machine, c) :
          FreshStep(write_char(Machine, c, oc), write_char(fresh, c, oc), c)
    /\ UNCHANGED <<input, fields, open>>

FreshScalars == {24, 27, 32, 49, 59, 80, 91, 93, 109}

InitFresh ==
    /\ \E pfx \in Prefixes \cup LiteralStarts : Starts(Run(VtMachine_new, "None", pfx))
    /\ input = <<>>
    /\ fields = <<>>

NextFresh ==
    \/ FreshEnd
    \/ \E c \in FreshScalars : FreshWrite(c)

SpecFresh == InitFresh /\ [][NextFresh]_vars

(***************************************************************************)
(* C10: after write_end the machine behaves as a freshly constructed one:  *)
(* the events emitted for each further scalar, with the params and         *)
(* intermediates they carry, equal the events a machine just returned by   *)
(* new() emits for the same scalars.                                       *)
(***************************************************************************)
C10_FreshAfterEnd ==
    call.op = "write_char" => events = fresh_events

\* m with both buffers cleared as write_end clears them: the lengths are
\* reset, the storage is kept.
Cleared(m) ==
    [m EXCEPT !.intermediates = VtIntermediates_clear(@), !.params = VtParams_clear(@)]

\* Writing c to m1 and to m2 returns the same events and leaves machines
\* that are equal, or are both in Literal and differ in buffer lengths only.
SameStep(m1, m2, c, oc) ==
    /\ write_char(m1, c, oc).events = write_char(m2, c, oc).events
    /\ write_char(m1, c, oc).panic = write_char(m2, c, oc).panic
    /\ Cleared(write_char(m1, c, oc).m) = Cleared(write_char(m2, c, oc).m)
    /\ write_char(m1, c, oc).m.state # "Literal" =>
          write_char(m1, c, oc).m = write_char(m2, c, oc).m

MaxExtra == 2

\* Digit strings: "0", "7", "42", "65535", "65536", "99999".
ParamPool ==
    <<<<48>>, <<55>>, <<52, 50>>, <<54, 53, 53, 51, 53>>, <<54, 53, 53, 51, 54>>,
      <<57, 57, 57, 57, 57>>>>

ParamFields(k, off) == [i \in 1..k |-> ParamPool[((i + off) % Len(ParamPool)) + 1]]

Introducers == {<<27, 91>>, <<27, 80>>}

Collected == {<<>>, <<32>>, <<32, 35>>, <<32, 35, 47>>}

InitParams ==
    /\ \E pfx \in LiteralStarts : Starts(Run(VtMachine_new, "None", pfx))
    /\ \E k \in 1..(ParamsCap + MaxExtra), off \in 1..Len(ParamPool),
          intro \in Introducers, ims \in Collected :
          /\ fields = ParamFields(k, off)
          /\ input = intro \o JoinFields(fields) \o ims \o <<109, 120>>

SpecParams == InitParams /\ [][NextCsi]_vars

\* The call that wrote the final byte of the sequence has just returned.
FinalWritten == call.op = "write_char" /\ Len(input) = 1 /\ ~panicked

\* The events of the call that carry the parameters.
Dispatches == SelectSeq(events, LAMBDA e : e.type \in {"DispatchCsi", "DcsStart"})

(***************************************************************************)
(* C12: the parameter buffer never holds more than 16 values and the       *)
(* visible length of the intermediate buffer is never more than 2; a       *)
(* sequence with more than 16 ';' separators still yields one dispatch     *)
(* whose params has exactly 16 entries.                                    *)
(***************************************************************************)
C12_BuffersBounded ==
    /\ Len(VtParams_values(params)) <= ParamsCap
    /\ VtIntermediates_len(intermediates) <= IntermediatesCap
    /\ Len(VtIntermediates_chars(intermediates)) <= IntermediatesCap
    /\ Len(fields) - 1 > ParamsCap =>
          /\ ~panicked
          /\ FinalWritten =>
                /\ Len(Dispatches) = 1
                /\ Len(VtParams_values(Dispatches[1].params)) = ParamsCap

(***************************************************************************)
(* C13: parameters beyond the 16th are dropped without disturbing the      *)
(* values already stored: for a sequence with more than 16 fields the 16   *)
(* values carried by DispatchCsi / DcsStart are the values of the first 16 *)
(* fields, whatever digits the later fields contain.                       *)
(***************************************************************************)
C13_ExtraFieldsDropped ==
    (FinalWritten /\ Len(fields) > ParamsCap /\ Dispatches # <<>>) =>
        VtParams_values(Dispatches[1].params)
            = [i \in 1..ParamsCap |-> Decimal(fields[i]) % U16]

(***************************************************************************)
(* C14: accumulating the digits of a parameter is arithmetic modulo 2^16:  *)
(* for every digit run the stored value is the run's decimal value mod     *)
(* 65536, and exceeding 65535 is not signalled: no failure, no Error       *)
(* event, the other parameters unaffected.                                 *)
(***************************************************************************)
C14_WrapsModulo ==
    (fields # <<>> /\ Len(fields) <= ParamsCap) =>
        /\ ~panicked
        /\ ~Emitted("Error")
        /\ (FinalWritten /\ Dispatches # <<>>) =>
              VtParams_values(Dispatches[1].params)
                  = [i \in 1..Len(fields) |-> Decimal(fields[i]) % U16]

(***************************************************************************)
(* C16: write_char and write_end never fail: from every reachable machine  *)
(* state (full or overrun buffers and parameter values near 65535          *)
(* included) the call completes and leaves the machine in one of the 14    *)
(* states.                                                                 *)
(***************************************************************************)
C16_NeverFails ==
    call.op \in {"write_char", "write_end"} =>
        /\ ~panicked
        /\ state \in States
        /\ Len(events) <= TransitionCap

(***************************************************************************)
(* SpecInterm: VtIntermediates on its own.  Bytes are pushed to the        *)
(* buffer and the buffer is cleared, in any order; `input` records the     *)
(* bytes pushed since the last clear.                                      *)
(***************************************************************************)
MaxPushes == 4

IntermBytes == {32, 35, 47}

InitInterm ==
    /\ Starts([m |-> VtMachine_new, last |-> "None"])
    /\ input = <<>>
    /\ fields = <<>>

IntermPush(b) ==
    /\ Len(input) < MaxPushes
    /\ intermediates' = VtIntermediates_push(intermediates, b)
    /\ input' = Append(input, b)
    /\ UNCHANGED <<state, params, in_literal_chunk, events, prior, call, did, pre,
                   panicked, fresh, fresh_events, fields, open>>

IntermClear ==
    /\ intermediates' = VtIntermediates_clear(intermediates)
    /\ input' = <<>>
    /\ UNCHANGED <<state, params, in_literal_chunk, events, prior, call, did, pre,
                   panicked, fresh, fresh_events, fields, open>>

NextInterm ==
    \/ \E b \in IntermBytes : IntermPush(b)
    \/ IntermClear

SpecInterm == InitInterm /\ [][NextInterm]_vars

(***************************************************************************)
(* C15: the first two pushes after a clear are stored in order; the third  *)
(* and every later push leave the two stored bytes and the visible length  *)
(* 2 unchanged and make has_overrun true; has_overrun is false while fewer *)
(* than three pushes have happened since the last clear, and clear resets  *)
(* both length and overrun.                                                *)
(***************************************************************************)
C15_IntermediatesOverrun ==
    /\ VtIntermediates_chars(intermediates)
          = SubSeq(input, 1, Min(Len(input), IntermediatesCap))
    /\ VtIntermediates_len(intermediates) = Min(Len(input), IntermediatesCap)
    /\ has_overrun(intermediates) <=> Len(input) > IntermediatesCap
    /\ input = <<>> => (intermediates.len = 0 /\ ~has_overrun(intermediates))

\* Four pushes since the last clear: the third and fourth were dropped.
C15_Witness ==
    /\ input = <<35, 47, 32, 35>>
    /\ has_overrun(intermediates)
    /\ VtIntermediates_chars(intermediates) = <<35, 47>>

\* The machines the prefixes of SpecTable lead to: each of the 14 states,
\* Literal with and without an open print run.
SampleMachines == {Run(VtMachine_new, "None", pfx).m : pfx \in Prefixes}

(***************************************************************************)
(* C17 as stated: no write_char call produces more than 5 events, write_end *)
(* produces at most 1, and the bound 5 is exact: some call does produce 5. *)
(***************************************************************************)
C17_BoundFiveIsExact ==
    /\ call.op = "write_char" => Len(events) <= TransitionCap
    /\ call.op = "write_end" => Len(events) <= 1
    /\ \E m \in SampleMachines, c \in Probes :
          Len(write_char(m, c, FALSE).events) = TransitionCap

(***************************************************************************)
(* C17 amended: no write_char call produces more than 2 events (5 is the   *)
(* number of slots of the Transition, which are never all filled: a call   *)
(* returns at most an exit event or a PrintEnd, followed by at most a main *)
(* event or an entry event), and write_end produces at most 1 event.       *)
(***************************************************************************)
C17_AtMostTwoEvents ==
    /\ call.op = "write_char" =>
          /\ Len(events) <= 2
          /\ Len(events) = 2 =>
                /\ events[1].type \in {"PrintEnd", "OscEnd", "DcsEnd"}
                /\ events[2].type \notin {"PrintEnd", "OscEnd", "DcsEnd"}
    /\ call.op = "write_end" => Len(events) <= 1

\* CAN written inside an operating system command: the exit event and the
\* main event of one call.
C17_Witness ==
    /\ call.op = "write_char"
    /\ pre.state = "OsCmd"
    /\ Len(events) = 2
    /\ events[1].type = "OscEnd"
    /\ events[2].type = "ExecuteCtrl"

(***************************************************************************)
(* SpecStrings: scalars that start, fill and end device control strings    *)
(* and operating system commands are written, and the stream is ended, in  *)
(* any order.  `open` follows the DcsStart / DcsEnd and OscStart / OscEnd   *)
(* events delivered so far.                                                *)
(***************************************************************************)
\* BEL, CAN, ESC, '1', 'P', '\', ']', 'm'
StringScalars == {7, 24, 27, 49, 80, 92, 93, 109}

\* The strings open after the event e, given those open before it.
OpenAfterEvent(o, e) ==
    CASE e.type = "DcsStart" -> o \cup {"Dcs"}
      [] e.type = "DcsEnd" -> o \ {"Dcs"}
      [] e.type = "OscStart" -> o \cup {"Osc"}
      [] e.type = "OscEnd" -> o \ {"Osc"}
      [] OTHER -> o

RECURSIVE OpenAfter(_, _)
OpenAfter(o, evs) ==
    IF evs = <<>> THEN o ELSE OpenAfter(OpenAfterEvent(o, Head(evs)), Tail(evs))

StringsWrite(c) ==
    /\ ~panicked
    /\ \E r \in WriteOutcomes(Machine, c) :
          /\ ParamsWithin(r.m.params)
          /\ Commit(r, "write_char", c)
    /\ open' = OpenAfter(open, events)
    /\ UNCHANGED <<fresh, fresh_events, input, fields>>

StringsEnd ==
    /\ ~panicked
    /\ Commit(write_end(Machine), "write_end", 0)
    /\ open' = OpenAfter(open, events)
    /\ UNCHANGED <<fresh, fresh_events, input, fields>>

NextStrings ==
    \/ \E c \in StringScalars : StringsWrite(c)
    \/ StringsEnd

SpecStrings == Init /\ [][NextStrings]_vars

\* Every DcsChar / DcsEnd of evs comes while a device control string is
\* open, every OscChar / OscEnd while an operating system command is open,
\* and the two are never open together; o is what was open before evs.
RECURSIVE OnlyWhileOpen(_, _)
OnlyWhileOpen(o, evs) ==
    IF evs = <<>> THEN TRUE
    ELSE /\ Head(evs).type \in {"DcsChar", "DcsEnd"} => "Dcs" \in o
         /\ Head(evs).type \in {"OscChar", "OscEnd"} => "Osc" \in o
         /\ OpenAfterEvent(o, Head(evs)) # {"Dcs", "Osc"}
         /\ OnlyWhileOpen(OpenAfterEvent(o, Head(evs)), Tail(evs))

(***************************************************************************)
(* C18: DcsChar and DcsEnd are emitted only after a DcsStart not yet       *)
(* closed by a DcsEnd, OscChar and OscEnd only after an OscStart not yet   *)
(* closed by an OscEnd, across any interleaving of write_char and          *)
(* write_end, and a DCS and an OSC are never open at the same time.        *)
(***************************************************************************)
C18_StringEventsOnlyWhileOpen == OnlyWhileOpen(open, events)

(***************************************************************************)
(* C19: an open operating system command is terminated by BEL: writing     *)
(* U+0007 while the machine is in OsCmd emits OscEnd and the machine       *)
(* leaves OsCmd, as the string terminator does.                            *)
(***************************************************************************)
C19_BelEndsOsc ==
    (call.op = "write_char" /\ call.c = 7 /\ pre.state = "OsCmd") =>
        /\ Emitted("OscEnd")
        /\ state # "OsCmd"

(***************************************************************************)
(* C20: an Error event is emitted only for a non-ASCII scalar: in no state *)
(* does an ASCII scalar U+0000..U+007F produce an Error event.             *)
(***************************************************************************)
C20_NoErrorForAscii ==
    (call.op = "write_char" /\ call.c \in 0..127) => ~Emitted("Error")

\* The bytes that may be stored as intermediates: 0x20..0x2f and 0x3c..0x3f.
IntermediateBytes == (32..47) \cup (60..63)

\* Every byte of the sequence bs is in the set allowed.
AllIn(bs, allowed) == \A i \in 1..Len(bs) : bs[i] \in allowed

(***************************************************************************)
(* C21: in every emitted event the cmd byte and every stored intermediate  *)
(* byte is ASCII: cmd of DispatchCsi and DcsStart lies in 0x40..0x7E, cmd  *)
(* of DispatchEsc in 0x30..0x7E, every intermediate byte in 0x20..0x2F or  *)
(* 0x3C..0x3F; and only ASCII digits and ';' reach the parameter           *)
(* accumulator.                                                            *)
(***************************************************************************)
C21_AsciiOnlyInSequences ==
    /\ \A i \in 1..Len(events) :
          /\ events[i].type \in {"DispatchCsi", "DcsStart"} => events[i].b \in 64..126
          /\ events[i].type = "DispatchEsc" => events[i].b \in 48..126
          /\ events[i].type \in {"DispatchCsi", "DcsStart", "DispatchEsc"} =>
                AllIn(VtIntermediates_chars(events[i].intermediates), IntermediateBytes)
    /\ AllIn(VtIntermediates_chars(intermediates), IntermediateBytes)
    /\ did.action = "Collect" => call.c \in IntermediateBytes
    /\ did.action = "Param" => call.c \in (48..57) \cup {59}

\* '~' written after ESC '[' '1' ' ': a DispatchCsi that carries a parameter
\* and an intermediate.
C21_Witness ==
    /\ call.op = "write_char"
    /\ call.c = 126
    /\ events # <<>>
    /\ LastEvent.type = "DispatchCsi"
    /\ LastEvent.b = 126
    /\ VtIntermediates_chars(LastEvent.intermediates) = <<32>>
    /\ VtParams_values(LastEvent.params) = <<1>>

(***************************************************************************)
(* The callback surface.  VtHandler declares one method per event it can   *)
(* be told about, and vt_handler_fn turns each method call into a value of *)
(* handler::VtEvent.  The driver that tells a handler about the machine's  *)
(* events is not part of the sources; Deliver models it as specified: the  *)
(* handler operation of each event's variant is invoked, in order.         *)
(***************************************************************************)
\* The method VtHandler declares for an event variant, "none" if there is none.
VtHandler_method(type) ==
    CASE type = "Print" -> "print"
      [] type = "ExecuteCtrl" -> "execute_ctrl"
      [] type = "DispatchCsi" -> "dispatch_csi"
      [] type = "DispatchEsc" -> "dispatch_esc"
      [] type = "Error" -> "error"
      [] type = "DcsStart" -> "dcs_start"
      [] type = "DcsChar" -> "dcs_char"
      [] type = "DcsEnd" -> "dcs_end"
      [] type = "OscStart" -> "osc_start"
      [] type = "OscChar" -> "osc_char"
      [] type = "OscEnd" -> "osc_end"
      [] OTHER -> "none"

\* The variant of handler::VtEvent that VtHandlerFn passes to its function
\* when the method is called.
vt_handler_fn(method) ==
    CASE method = "print" -> "Print"
      [] method = "execute_ctrl" -> "ExecuteCtrl"
      [] method = "dispatch_csi" -> "DispatchCsi"
      [] method = "dispatch_esc" -> "DispatchEsc"
      [] method = "error" -> "Error"
      [] method = "dcs_start" -> "DcsStart"
      [] method = "dcs_char" -> "DcsChar"
      [] method = "dcs_end" -> "DcsEnd"
      [] method = "osc_start" -> "OscStart"
      [] method = "osc_char" -> "OscChar"
      [] method = "osc_end" -> "OscEnd"

\* The handler methods invoked for the events evs, in order.
RECURSIVE Deliver(_)
Deliver(evs) ==
    IF evs = <<>> THEN <<>>
    ELSE IF VtHandler_method(Head(evs).type) = "none" THEN Deliver(Tail(evs))
    ELSE <<VtHandler_method(Head(evs).type)>> \o Deliver(Tail(evs))

\* The event types a function given to vt_handler_fn sees for the events evs.
Callback(evs) == [i \in 1..Len(Deliver(evs)) |-> vt_handler_fn(Deliver(evs)[i])]

(***************************************************************************)
(* C22: the callback surface and the iterator surface deliver the same     *)
(* event types in the same order for every input, the PrintEnd boundary    *)
(* included.                                                               *)
(***************************************************************************)
C22_SurfacesAgree == Callback(events) = EventTypes

(***************************************************************************)
(* from_slice of both buffers: a new buffer, the slice copied to the front *)
(* of its storage; a slice longer than the storage panics.  Returns        *)
(* [p, panic].  The derived == of the buffers is equality of the records.  *)
(***************************************************************************)
VtParams_from_slice(from) ==
    IF Len(from) > ParamsCap THEN [p |-> VtParams_new, panic |-> TRUE]
    ELSE [p |-> [buf |-> [i \in 1..ParamsCap |->
                             IF i <= Len(from) THEN from[i] ELSE VtParams_new.buf[i]],
                 len |-> Len(from)],
          panic |-> FALSE]

VtIntermediates_from_slice(from) ==
    IF Len(from) > IntermediatesCap THEN [p |-> VtIntermediates_new, panic |-> TRUE]
    ELSE [p |-> [buf |-> [i \in 1..IntermediatesCap |->
                             IF i <= Len(from) THEN from[i] ELSE VtIntermediates_new.buf[i]],
                 len |-> Len(from)],
          panic |-> FALSE]

(***************************************************************************)
(* C23: the params and intermediates carried by a dispatch event are == to *)
(* VtParams::from_slice / VtIntermediates::from_slice of the same visible  *)
(* values, whatever the machine processed earlier: equality depends on the *)
(* visible values only, never on storage left over from before a clear.    *)
(***************************************************************************)
C23_EqualityByVisibleValues ==
    \A i \in 1..Len(events) :
        /\ events[i].type \in {"DispatchCsi", "DcsStart"} =>
              events[i].params = VtParams_from_slice(VtParams_values(events[i].params)).p
        /\ (events[i].type \in {"DispatchCsi", "DcsStart", "DispatchEsc"}
              /\ ~has_overrun(events[i].intermediates)) =>
              events[i].intermediates =
                  VtIntermediates_from_slice(VtIntermediates_chars(events[i].intermediates)).p

(***************************************************************************)
(* C24: in Literal every scalar that is neither a C0 control nor a C1      *)
(* control is emitted as Print of exactly that scalar and the state stays  *)
(* Literal: DEL, U+00A0..U+00FF and every other non-ASCII scalar such as   *)
(* U+FFFD included; and Literal never emits Error.                         *)
(***************************************************************************)
C24_LiteralPrints ==
    (call.op = "write_char" /\ pre.state = "Literal") =>
        /\ ~Emitted("Error")
        /\ (call.c \notin 0..31 /\ call.c \notin 128..159) =>
              /\ state = "Literal"
              /\ events = <<CharEvent("Print", from_char(call.c))>>
              /\ to_char(events[1].c) = call.c
              /\ in_literal_chunk

\* U+FFFD written in the middle of a print run.
C24_Witness ==
    /\ call.op = "write_char"
    /\ call.c = 65533
    /\ pre.state = "Literal"
    /\ pre.in_literal_chunk
    /\ EventTypes = <<"Print">>

(***************************************************************************)
(* C25: within one write_char call that changes state the events come in   *)
(* the order exit event of the previous state (OscEnd / DcsEnd), main      *)
(* action's event, entry event of the new state (OscStart / DcsStart);     *)
(* U+0018 in DevCtrlPassthru emits exactly DcsEnd(0x18), ExecuteCtrl(0x18).*)
(***************************************************************************)
ExitTypes == {"OscEnd", "DcsEnd"}

EntryTypes == {"OscStart", "DcsStart"}

Rank(type) ==
    CASE type \in ExitTypes -> 1
      [] type \in EntryTypes -> 3
      [] OTHER -> 2

ExitTypeOf(s) ==
    CASE s = "OsCmd" -> "OscEnd"
      [] s = "DevCtrlPassthru" -> "DcsEnd"
      [] OTHER -> "None"

EntryTypeOf(s) ==
    CASE s = "OsCmd" -> "OscStart"
      [] s = "DevCtrlPassthru" -> "DcsStart"
      [] OTHER -> "None"

C25_ExitMainEntryOrder ==
    (call.op = "write_char" /\ did.call \in {"change_state", "error"} /\ ~panicked) =>
        /\ \A i, j \in 1..Len(events) :
              i < j => Rank(events[i].type) <= Rank(events[j].type)
        /\ \A i \in 1..Len(events) :
              /\ events[i].type \in ExitTypes =>
                    i = 1 /\ events[i] = ByteEvent(ExitTypeOf(pre.state),
                                                   first_byte(from_char(call.c)))
              /\ events[i].type \in EntryTypes =>
                    i = Len(events) /\ events[i].type = EntryTypeOf(state)
        /\ (ExitTypeOf(pre.state) # "None") = (\E i \in 1..Len(events) : events[i].type \in ExitTypes)
        /\ (EntryTypeOf(state) # "None") = (\E i \in 1..Len(events) : events[i].type \in EntryTypes)
        /\ Cardinality({i \in 1..Len(events) :
                           events[i].type \notin ExitTypes \cup EntryTypes \cup {"PrintEnd"}}) <= 1
        /\ (pre.state = "DevCtrlPassthru" /\ call.c = 24) =>
              events = <<ByteEvent("DcsEnd", 24), ByteEvent("ExecuteCtrl", 24)>>

\* CAN written inside a device control string.
C25_Witness ==
    /\ call.op = "write_char"
    /\ call.c = 24
    /\ pre.state = "DevCtrlPassthru"
    /\ did.call = "change_state"
    /\ state = "Literal"
    /\ EventTypes = <<"DcsEnd", "ExecuteCtrl">>

(***************************************************************************)
(* C26: whenever the machine is in Escape, CtrlStart or DevCtrlStart, the  *)
(* parameter buffer and the intermediate buffer are both empty and the     *)
(* intermediates have no overrun.                                          *)
(***************************************************************************)
ClearedOnEntry == {"Escape", "CtrlStart", "DevCtrlStart"}

C26_StartStatesHaveEmptyBuffers ==
    state \in ClearedOnEntry =>
        /\ params.len = 0
        /\ VtParams_values(params) = <<>>
        /\ intermediates.len = 0
        /\ VtIntermediates_chars(intermediates) = <<>>
        /\ ~has_overrun(intermediates)

\* ESC written while a control sequence held a parameter and overrun
\* intermediates: the buffers were not empty before the entry.
C26_Witness ==
    /\ call.op = "write_char"
    /\ call.c = 27
    /\ state = "Escape"
    /\ pre.params.len > 0
    /\ has_overrun(pre.intermediates)
    /\ params.len = 0
    /\ intermediates.len = 0

(***************************************************************************)
(* C27: after every write_char or write_end call, in_literal_chunk is true *)
(* exactly when at least one event has been emitted since the last         *)
(* write_end (or construction) and the most recent of them is Print.       *)
(***************************************************************************)
C27_ChunkFlagTracksLastPrint ==
    /\ in_literal_chunk = (PriorNow = "Print")
    /\ call.op = "write_end" => ~in_literal_chunk
    /\ (call.op = "write_char" /\ events # <<>>) =>
          in_literal_chunk = (events[Len(events)].type = "Print")
    /\ (call.op = "write_char" /\ events = <<>>) =>
          in_literal_chunk = (prior = "Print")

\* A call that emitted nothing, made after a PrintEnd closed a print run in
\* this stream: the flag stays false.
C27_Witness ==
    /\ call.op = "write_char"
    /\ events = <<>>
    /\ prior = "PrintEnd"
    /\ ~in_literal_chunk
    /\ state = "CtrlIntermediate"

(***************************************************************************)
(* C28: a C0 control written in Escape, EscapeIntermediate, CtrlStart,     *)
(* CtrlParam, CtrlIntermediate or CtrlMalformed emits exactly one          *)
(* ExecuteCtrl and leaves the state and both buffers unchanged, so the     *)
(* sequence continues as if the control had not been there.                *)
(***************************************************************************)
SequenceStates ==
    {"Escape", "EscapeIntermediate", "CtrlStart", "CtrlParam", "CtrlIntermediate",
     "CtrlMalformed"}

C28_C0InsideSequence ==
    (call.op = "write_char" /\ pre.state \in SequenceStates /\ call.c \in TblC0) =>
        /\ ~panicked
        /\ events = <<ByteEvent("ExecuteCtrl", call.c)>>
        /\ state = pre.state
        /\ params = pre.params
        /\ intermediates = pre.intermediates
        /\ Machine = pre

\* BEL written between a parameter and the intermediate's final byte.
C28_Witness ==
    /\ call.op = "write_char"
    /\ call.c = 7
    /\ pre.state = "CtrlIntermediate"
    /\ VtParams_values(params) = <<1>>
    /\ VtIntermediates_chars(intermediates) = <<32>>
    /\ EventTypes = <<"ExecuteCtrl">>

(***************************************************************************)
(* C29: every write_char whose table entry is 'stay' with main action None *)
(* (DEL inside the escape, control and device control states, C0 controls  *)
(* in the device control and OsCmd states, ASCII in IgnoreUntilSt and      *)
(* DevCtrlMalformed) emits no event and leaves state, parameter buffer,    *)
(* intermediate buffer and in_literal_chunk unchanged.                     *)
(***************************************************************************)
StayNone(s, c) ==
    /\ ~TblIsUniversal(c)
    /\ TblLookup(TblPerState(s), c, TblOtherwise(s)) = [next |-> "stay", action |-> "None"]

C29_StayNoneChangesNothing ==
    (call.op = "write_char" /\ (StayNone(pre.state, call.c) \/ did.call = "no_change")) =>
        /\ ~panicked
        /\ events = <<>>
        /\ state = pre.state
        /\ params = pre.params
        /\ intermediates = pre.intermediates
        /\ in_literal_chunk = pre.in_literal_chunk

\* DEL written in a control sequence that holds a parameter and an
\* intermediate.
C29_Witness ==
    /\ call.op = "write_char"
    /\ call.c = 127
    /\ StayNone(pre.state, call.c)
    /\ did.call = "no_change"
    /\ state = "CtrlIntermediate"
    /\ params.len = 1
    /\ intermediates.len = 1
    /\ events = <<>>

(***************************************************************************)
(* C30: once a control sequence has entered CtrlMalformed no DispatchCsi   *)
(* is emitted for it: the final byte 0x40..0x7E returns to Literal with no *)
(* event, and a DispatchCsi comes only from a sequence that began with a   *)
(* new introducer; likewise a device control string that has entered       *)
(* DevCtrlMalformed never emits DcsStart, DcsChar or DcsEnd.               *)
(***************************************************************************)
CsiOpen == {"CtrlStart", "CtrlParam", "CtrlIntermediate"}

DcsCollecting == {"DevCtrlStart", "DevCtrlParam", "DevCtrlIntermediate"}

DcsTypes == {"DcsStart", "DcsChar", "DcsEnd"}

C30_MalformedNeverDispatches ==
    /\ pre.state = "CtrlMalformed" =>
          /\ ~Emitted("DispatchCsi")
          /\ state \notin CsiOpen
          /\ (call.op = "write_char" /\ call.c \in 64..126) =>
                state = "Literal" /\ events = <<>>
    /\ Emitted("DispatchCsi") => pre.state \in CsiOpen
    /\ state \in {"CtrlParam", "CtrlIntermediate"} => pre.state \in CsiOpen
    /\ (state = "CtrlStart" /\ pre.state # "CtrlStart") =>
          pre.state = "Escape" /\ call.op = "write_char" /\ call.c = 91
    /\ pre.state = "DevCtrlMalformed" =>
          /\ \A t \in DcsTypes : ~Emitted(t)
          /\ state \notin DcsCollecting \cup {"DevCtrlPassthru"}
    /\ Emitted("DcsStart") =>
          pre.state \in DcsCollecting /\ state = "DevCtrlPassthru"
    /\ (Emitted("DcsChar") \/ Emitted("DcsEnd")) => pre.state = "DevCtrlPassthru"
    /\ state = "DevCtrlPassthru" => pre.state \in DcsCollecting \cup {"DevCtrlPassthru"}
    /\ state \in {"DevCtrlParam", "DevCtrlIntermediate"} => pre.state \in DcsCollecting
    /\ (state = "DevCtrlStart" /\ pre.state # "DevCtrlStart") =>
          pre.state = "Escape" /\ call.op = "write_char" /\ call.c = 80

\* The final byte of a malformed control sequence that held a parameter.
C30_Witness ==
    /\ call.op = "write_char"
    /\ call.c = 109
    /\ pre.state = "CtrlMalformed"
    /\ pre.params.len > 0
    /\ state = "Literal"
    /\ events = <<>>

(***************************************************************************)
(* C31: in every reachable machine state in_literal_chunk implies that the *)
(* state is Literal; so no call emits both a PrintEnd and an exit event    *)
(* (OscEnd or DcsEnd), and no call emits more than one PrintEnd.           *)
(***************************************************************************)
C31_ChunkOnlyInLiteral ==
    /\ in_literal_chunk => state = "Literal"
    /\ pre.in_literal_chunk => pre.state = "Literal"
    /\ ~(Emitted("PrintEnd") /\ (Emitted("OscEnd") \/ Emitted("DcsEnd")))
    /\ CountOf("PrintEnd") <= 1

\* ESC written in a print run: the one PrintEnd of the call, and the flag is
\* down on leaving Literal.
C31_Witness ==
    /\ call.op = "write_char"
    /\ call.c = 27
    /\ pre.in_literal_chunk
    /\ state = "Escape"
    /\ ~in_literal_chunk
    /\ events = <<PrintEnd>>

(***************************************************************************)
(* C32: the params and intermediates carried by a DispatchCsi, DispatchEsc *)
(* or DcsStart are determined solely by the scalars written since the most *)
(* recent introducer: a machine that went through earlier sequences and a  *)
(* machine as built, fed the same sequence, carry the same buffers in the  *)
(* dispatch.                                                               *)
(***************************************************************************)
\* The scalars of the sequence written so far, from its introducer on.
SinceIntroducer ==
    SubSeq(CsiInput(fields, call.c), 1, Len(CsiInput(fields, call.c)) - Len(input))

\* The events of the last call when a machine as built is fed the scalars cs.
EventsFromNew(cs) ==
    write_char(Run(VtMachine_new, "None", SubSeq(cs, 1, Len(cs) - 1)).m,
               cs[Len(cs)], TRUE).events

C32_DispatchSeesOnlyItsSequence ==
    (call.op = "write_char" /\ Len(input) = 1 /\ Emitted("DispatchCsi")) =>
        LET own == EventsFromNew(SinceIntroducer)
        IN  /\ Len(own) = 1
            /\ own[1].type = "DispatchCsi"
            /\ events[Len(events)].params = own[1].params
            /\ events[Len(events)].intermediates = own[1].intermediates

(***************************************************************************)
(* SpecFields: a machine in Literal is fed a control sequence or a device  *)
(* control string whose fields may be empty (";5", "12;", ";;"), a final   *)
(* byte and one more character, one scalar per step.                       *)
(***************************************************************************)
MaxFields == 3

\* Digit strings: "", "5", "12".
FieldChoices == {<<>>, <<53>>, <<49, 50>>}

InitFields ==
    /\ \E pfx \in LiteralStarts : Starts(Run(VtMachine_new, "None", pfx))
    /\ \E k \in 1..MaxFields, intro \in Introducers :
          \E fs \in [1..k -> FieldChoices] :
              /\ fields = fs
              /\ input = intro \o JoinFields(fs) \o <<109, 120>>

SpecFields == InitFields /\ [][NextCsi]_vars

(***************************************************************************)
(* C33: the params of a DispatchCsi or DcsStart are the ';'-separated      *)
(* integer fields of the sequence: when the sequence holds at least one    *)
(* digit or ';', the number of params is the number of ';' plus one        *)
(* (capped at 16), an empty field being reported as 0 in its own position. *)
(***************************************************************************)
C33_ParamsAreTheFields ==
    FinalWritten =>
        /\ Len(Dispatches) = 1
        /\ JoinFields(fields) # <<>> =>
              VtParams_values(Dispatches[1].params)
                  = [i \in 1..Min(ParamsCap, Len(fields)) |-> Decimal(fields[i])]

(***************************************************************************)
(* impl Debug for VtIntermediates: the end of the slice &buf[..len] it     *)
(* formats, and whether taking that slice panics.                          *)
(***************************************************************************)
VtIntermediates_fmt_end(im) == im.len

VtIntermediates_fmt_panics(im) == VtIntermediates_fmt_end(im) > IntermediatesCap

(***************************************************************************)
(* C34: Debug-formatting a VtIntermediates never reads outside its 2-byte  *)
(* storage: for every buffer reachable through push, clear and from_slice, *)
(* an overrun one included, the slice index Debug uses is at most 2.       *)
(***************************************************************************)
C34_DebugIndexWithinStorage ==
    /\ VtIntermediates_fmt_end(intermediates) <= IntermediatesCap
    /\ ~VtIntermediates_fmt_panics(intermediates)
    /\ \A n \in 0..IntermediatesCap :
          ~VtIntermediates_fmt_panics(
              VtIntermediates_from_slice([i \in 1..n |-> 32]).p)
====
